---- MODULE Spec2Model ----
(***************************************************************************)
(* Model of the XLSX -> PostgreSQL rule migration tool.                    *)
(*                                                                         *)
(* Text values are sequences of one-character strings, so that trim,       *)
(* toLowerCase, slice and includes are computed as JavaScript computes     *)
(* them.  A spreadsheet cell is a tagged value: a string, a number or an   *)
(* empty cell (undefined).                                                 *)
(*                                                                         *)
(* Three specifications share the loader, a fourth is the schema tool:     *)
(*   Spec      CLI.run with --table for one table, on explicit spreadsheet *)
(*             rows (setup, configuration, fetch, parse, transform,        *)
(*             validate, load, summary, exit code).                        *)
(*   SpecRun   CLI.run over all configured tables or one, with one-row     *)
(*             workbooks, for what concerns the run as a whole.            *)
(*   SpecLoad  DataTransformer strategy selection followed by              *)
(*             DatabaseMigration.migrateToTable / migrateToTableStreaming, *)
(*             on row counts, with the options as inputs.                  *)
(*   SpecMigrations  DatabaseMigrations.migrate / getStatus /              *)
(*             verifyIntegrity, statement by statement, over the pool of   *)
(*             DatabaseConnection.                                         *)
(* The loader reads only the number of records of a batch, so it is        *)
(* modelled on record counts in the first three.                           *)
(*                                                                         *)
(* Of the revisions of DataTransformer in the repository two are taken,    *)
(* the ones a caller can reach with the final behaviour: the streaming     *)
(* revision (threshold, cache, createMinimalRecord, no deduplication) and  *)
(* the bypass revision of processing/data-transformer.ts (1000-row limit,  *)
(* deduplicateRecords).  A run takes either at the transform step of its   *)
(* first table, keeps it for the other tables, and records which in the    *)
(* variable revision.  The transformSheetData / safeTransformRecord path   *)
(* of both revisions has no caller and is not modelled; safeNormalize, the *)
(* normalization it would apply, is given as an operator.                  *)
(***************************************************************************)
EXTENDS Integers, Sequences, FiniteSets, TLC

(***************************************************************************)
(* Bounds of the model                                                     *)
(***************************************************************************)
MaxRows == 2
MaxFaults == 2
MaxBatches == 4

(***************************************************************************)
(* JavaScript string helpers                                               *)
(***************************************************************************)
IsSpace(ch) == ch \in {" ", "\t", "\n", "\r"}

RECURSIVE TrimStart(_)
TrimStart(s) ==
  IF s = <<>> THEN <<>>
  ELSE IF IsSpace(Head(s)) THEN TrimStart(Tail(s)) ELSE s

RECURSIVE TrimEnd(_)
TrimEnd(s) ==
  IF s = <<>> THEN <<>>
  ELSE IF IsSpace(s[Len(s)]) THEN TrimEnd(SubSeq(s, 1, Len(s) - 1)) ELSE s

Trim(s) == TrimEnd(TrimStart(s))

LowerChar(ch) ==
  CASE ch = "A" -> "a"
    [] ch = "B" -> "b"
    [] ch = "C" -> "c"
    [] ch = "D" -> "d"
    [] ch = "E" -> "e"
    [] ch = "F" -> "f"
    [] ch = "G" -> "g"
    [] ch = "H" -> "h"
    [] ch = "I" -> "i"
    [] ch = "J" -> "j"
    [] ch = "K" -> "k"
    [] ch = "L" -> "l"
    [] ch = "M" -> "m"
    [] ch = "N" -> "n"
    [] ch = "O" -> "o"
    [] ch = "P" -> "p"
    [] ch = "Q" -> "q"
    [] ch = "R" -> "r"
    [] ch = "S" -> "s"
    [] ch = "T" -> "t"
    [] ch = "U" -> "u"
    [] ch = "V" -> "v"
    [] ch = "W" -> "w"
    [] ch = "X" -> "x"
    [] ch = "Y" -> "y"
    [] ch = "Z" -> "z"
    [] OTHER -> ch

RECURSIVE ToLowerCase(_)
ToLowerCase(s) ==
  IF s = <<>> THEN <<>> ELSE <<LowerChar(Head(s))>> \o ToLowerCase(Tail(s))

\* a slice that returns the whole string
SliceAll(s, n) == s

\* s.slice(0, n) and s.substring(0, n) for n >= 0
Slice0(s, n) == SubSeq(s, 1, IF Len(s) < n THEN Len(s) ELSE n)

\* s.includes(sub)
Includes(s, sub) ==
  \E k \in 0..(Len(s) - Len(sub)) : SubSeq(s, k + 1, k + Len(sub)) = sub

(***************************************************************************)
(* Cells: sheet_to_json(worksheet, {header: 1}) yields strings, numbers    *)
(* and holes                                                               *)
(***************************************************************************)
Str(s) == [t |-> "str", s |-> s]
Num(n) == [t |-> "num", n |-> n]
Undefined == [t |-> "undefined"]

Digits == <<"0", "1", "2", "3", "4", "5", "6", "7", "8", "9">>

\* !cell
Falsy(cell) ==
  \/ cell.t = "undefined"
  \/ cell.t = "str" /\ cell.s = <<>>
  \/ cell.t = "num" /\ cell.n = 0

\* String(cell), numbers 0..9
ToStr(cell) ==
  CASE cell.t = "str" -> cell.s
    [] cell.t = "num" -> <<Digits[cell.n + 1]>>
    [] OTHER -> <<"u", "n", "d", "e", "f", "i", "n", "e", "d">>

(***************************************************************************)
(* database/schema.ts                                                      *)
(***************************************************************************)
RULE_TABLE_COLUMNS ==
  << "code", "description", "label", "requirement_level", "roles", "type",
     "validations", "variant", "codigo-categoria-mirakl",
     "nome-categoria-mirakl", "parent_code-categoria-mirakl" >>

Columns == {RULE_TABLE_COLUMNS[i] : i \in 1..Len(RULE_TABLE_COLUMNS)}

(***************************************************************************)
(* processing/xlsx-parser.ts                                               *)
(***************************************************************************)
headerVariations(c) ==
  CASE c = "code" -> << <<"c", "o", "d", "e">>,
            <<"c", "o", "d", "i", "g", "o">>,
            <<"i", "d">> >>
    [] c = "description" -> << <<"d", "e", "s", "c", "r", "i", "p", "t", "i", "o", "n">>,
            <<"d", "e", "s", "c", "r", "i", "c", "a", "o">>,
            <<"d", "e", "s", "c">> >>
    [] c = "label" -> << <<"l", "a", "b", "e", "l">>,
            <<"n", "o", "m", "e">>,
            <<"n", "a", "m", "e">> >>
    [] c = "requirement_level" -> << <<"r", "e", "q", "u", "i", "r", "e", "m", "e", "n", "t", "_", "l", "e", "v", "e", "l">>,
            <<"n", "i", "v", "e", "l", "_", "r", "e", "q", "u", "i", "s", "i", "t", "o">>,
            <<"r", "e", "q", "u", "i", "r", "e", "d">> >>
    [] c = "roles" -> << <<"r", "o", "l", "e", "s">>,
            <<"p", "a", "p", "e", "i", "s">>,
            <<"f", "u", "n", "c", "t", "i", "o", "n", "s">> >>
    [] c = "type" -> << <<"t", "y", "p", "e">>,
            <<"t", "i", "p", "o">>,
            <<"c", "a", "t", "e", "g", "o", "r", "y">> >>
    [] c = "validations" -> << <<"v", "a", "l", "i", "d", "a", "t", "i", "o", "n", "s">>,
            <<"v", "a", "l", "i", "d", "a", "c", "o", "e", "s">>,
            <<"r", "u", "l", "e", "s">> >>
    [] c = "variant" -> << <<"v", "a", "r", "i", "a", "n", "t">>,
            <<"v", "a", "r", "i", "a", "n", "t", "e">>,
            <<"v", "e", "r", "s", "i", "o", "n">> >>
    [] c = "codigo-categoria-mirakl" -> << <<"c", "o", "d", "i", "g", "o", "-", "c", "a", "t", "e", "g", "o", "r", "i", "a", "-", "m", "i", "r", "a", "k", "l">>,
            <<"m", "i", "r", "a", "k", "l", "_", "c", "a", "t", "e", "g", "o", "r", "y", "_", "c", "o", "d", "e">> >>
    [] c = "nome-categoria-mirakl" -> << <<"n", "o", "m", "e", "-", "c", "a", "t", "e", "g", "o", "r", "i", "a", "-", "m", "i", "r", "a", "k", "l">>,
            <<"m", "i", "r", "a", "k", "l", "_", "c", "a", "t", "e", "g", "o", "r", "y", "_", "n", "a", "m", "e">> >>
    [] OTHER -> << <<"p", "a", "r", "e", "n", "t", "_", "c", "o", "d", "e", "-", "c", "a", "t", "e", "g", "o", "r", "i", "a", "-", "m", "i", "r", "a", "k", "l">>,
            <<"p", "a", "r", "e", "n", "t", "_", "m", "i", "r", "a", "k", "l", "_", "c", "o", "d", "e">> >>

\* rawData[0]?.map(h => String(h || '').trim())
RECURSIVE headerStrings(_)
headerStrings(headerRow) ==
  IF headerRow = <<>> THEN <<>>
  ELSE << Trim(IF Falsy(Head(headerRow)) THEN <<>> ELSE ToStr(Head(headerRow))) >>
         \o headerStrings(Tail(headerRow))

headerMatches(header, c) ==
  LET lower == ToLowerCase(header)
  IN \E v \in 1..Len(headerVariations(c)) :
        Includes(lower, ToLowerCase(headerVariations(c)[v]))

\* headers.findIndex(...) from position i on: the 0-based index of the first
\* matching header, -1 if none
RECURSIVE findIndexFrom(_, _, _)
findIndexFrom(headers, c, i) ==
  IF i > Len(headers) THEN -1
  ELSE IF headerMatches(headers[i], c) THEN i - 1
       ELSE findIndexFrom(headers, c, i + 1)

headerIndexOf(headers, c) == findIndexFrom(headers, c, 1)

\* the Map<string, number> from column k on; -1 stands for an absent key
RECURSIVE columnMappingFrom(_, _)
columnMappingFrom(headers, k) ==
  IF k > Len(RULE_TABLE_COLUMNS) THEN <<>>
  ELSE (RULE_TABLE_COLUMNS[k] :> headerIndexOf(headers, RULE_TABLE_COLUMNS[k]))
         @@ columnMappingFrom(headers, k + 1)

createColumnMapping(headers) == columnMappingFrom(headers, 1)

\* the errors createColumnMapping adds to the collector, in column order
RECURSIVE mappingErrorsFrom(_, _)
mappingErrorsFrom(mapping, k) ==
  IF k > Len(RULE_TABLE_COLUMNS) THEN <<>>
  ELSE (IF mapping[RULE_TABLE_COLUMNS[k]] = -1
        THEN << [source |-> "XLSXParser", kind |-> "unmapped_column",
                 ref |-> RULE_TABLE_COLUMNS[k]] >>
        ELSE <<>>) \o mappingErrorsFrom(mapping, k + 1)

\* row.every(cell => !cell || String(cell).trim() === '')
rowIsEmpty(row) ==
  \A i \in 1..Len(row) : Falsy(row[i]) \/ Trim(ToStr(row[i])) = <<>>

\* the record built by processRow: the trimmed cell of a column that is mapped
\* to a header index below row.length, the empty string for any other column
RECURSIVE rowRecordFrom(_, _, _)
rowRecordFrom(row, mapping, k) ==
  IF k > Len(RULE_TABLE_COLUMNS) THEN <<>>
  ELSE LET c == RULE_TABLE_COLUMNS[k]
       IN (c :> (IF mapping[c] # -1 /\ mapping[c] < Len(row)
                 THEN (IF Falsy(row[mapping[c] + 1]) THEN <<>>
                       ELSE Trim(ToStr(row[mapping[c] + 1])))
                 ELSE <<>>))
            @@ rowRecordFrom(row, mapping, k + 1)

rowRecord(row, mapping) == rowRecordFrom(row, mapping, 1)

\* processRow: "null" for an empty row, "throw" for a missing code, else the record
processRow(row, mapping) ==
  IF rowIsEmpty(row) THEN [kind |-> "null"]
  ELSE LET record == rowRecord(row, mapping)
       IN IF "code" \notin DOMAIN record \/ record["code"] = <<>>
                \/ Trim(record["code"]) = <<>>
          THEN [kind |-> "throw"]
          ELSE [kind |-> "record", record |-> record]

\* rows of one sheet from position k on: the records pushed to data and the
\* errors added to the collector; the data row at position k has rowNumber k + 1
RECURSIVE processRows(_, _, _, _)
processRows(dataRows, mapping, sheetIndex, k) ==
  IF k > Len(dataRows) THEN [data |-> <<>>, added |-> <<>>]
  ELSE LET r == processRow(dataRows[k], mapping)
           rest == processRows(dataRows, mapping, sheetIndex, k + 1)
       IN CASE r.kind = "record" ->
                 [data |-> << [f |-> r.record, src |-> <<sheetIndex, k + 1>>] >> \o rest.data,
                  added |-> rest.added]
            [] r.kind = "throw" ->
                 [data |-> rest.data,
                  added |-> << [source |-> "XLSXParser", kind |-> "row",
                                ref |-> <<sheetIndex, k + 1>>] >> \o rest.added]
            [] OTHER -> rest

\* processSheet: the ParsedSheet and the entries it adds to the collector.
\* Every record carries src = <<sheet, rowNumber>>, the row it was read from;
\* src is bookkeeping of the model and is read by no operator of the program.
processSheet(rawData, sheetIndex) ==
  IF Len(rawData) = 0
  THEN [sheet |-> [sheetName |-> sheetIndex, data |-> <<>>, totalRows |-> 0,
                   validRows |-> 0, errors |-> 1],
        added |-> <<>>]
  ELSE LET mapping == createColumnMapping(headerStrings(rawData[1]))
           rows == processRows(Tail(rawData), mapping, sheetIndex, 1)
           rowErrors == Len(rows.added)
       IN [sheet |-> [sheetName |-> sheetIndex, data |-> rows.data,
                      totalRows |-> Len(rawData) - 1,
                      validRows |-> Len(rows.data), errors |-> rowErrors],
           added |-> mappingErrorsFrom(mapping, 1) \o rows.added]

\* parseXLSXBuffer without the failure of XLSX.read: the sheets in workbook order
RECURSIVE parseSheets(_, _)
parseSheets(workbook, k) ==
  IF k > Len(workbook) THEN [sheets |-> <<>>, added |-> <<>>]
  ELSE LET one == processSheet(workbook[k], k)
           rest == parseSheets(workbook, k + 1)
       IN [sheets |-> <<one.sheet>> \o rest.sheets, added |-> one.added \o rest.added]

(***************************************************************************)
(* processing/data-transformer.ts, the streaming revision                  *)
(***************************************************************************)
LARGE_THRESHOLD == 100000

RECURSIVE SumSeq(_)
SumSeq(s) == IF s = <<>> THEN 0 ELSE Head(s) + SumSeq(Tail(s))

\* parsedSheets.reduce((sum, sheet) => sum + sheet.data.length, 0) > 100000
\* the test with the threshold itself counted as large
useStreamingFromThreshold(totalRows) == totalRows >= LARGE_THRESHOLD

useStreaming(totalRows) == totalRows > LARGE_THRESHOLD

RECURSIVE NumToStr(_)
NumToStr(n) ==
  IF n < 10 THEN <<Digits[n + 1]>> ELSE NumToStr(n \div 10) \o <<Digits[(n % 10) + 1]>>

\* getSafeValue: a key outside DOMAIN record is undefined
RECURSIVE getSafeValue(_, _, _)
getSafeValue(record, keys, fallback) ==
  IF keys = <<>> THEN fallback
  ELSE IF Head(keys) \in DOMAIN record THEN record[Head(keys)]
       ELSE getSafeValue(record, Tail(keys), fallback)

fieldCap(c) ==
  CASE c = "code" -> 100
    [] c = "description" -> 500
    [] c = "label" -> 200
    [] c = "requirement_level" -> 50
    [] c = "roles" -> 200
    [] c = "type" -> 50
    [] c = "validations" -> 500
    [] c = "variant" -> 100
    [] c = "codigo-categoria-mirakl" -> 100
    [] c = "nome-categoria-mirakl" -> 200
    [] OTHER -> 100

fieldKeys(c) ==
  CASE c = "code" -> <<"code", "Code">>
    [] c = "description" -> <<"description", "Description">>
    [] c = "label" -> <<"label", "Label">>
    [] c = "roles" -> <<"roles", "Roles">>
    [] c = "type" -> <<"type", "Type">>
    [] c = "validations" -> <<"validations", "Validations">>
    [] c = "variant" -> <<"variant", "Variant">>
    [] OTHER -> <<c>>

\* createMinimalRecord(sourceRecord, index), index 0-based
createMinimalRecord(sourceRecord, index) ==
  [c \in Columns |->
     Slice0(getSafeValue(sourceRecord, fieldKeys(c),
                         IF c = "code"
                         THEN <<"a", "u", "t", "o", "_", "r", "o", "w", "_">>
                                \o NumToStr(index + 1)
                         ELSE <<>>),
            fieldCap(c))]

\* streamingTransformation: one record per element of sheet.data, in order
streamingTransformation(sheet) ==
  [records |-> [j \in 1..Len(sheet.data) |->
                  [f |-> createMinimalRecord(sheet.data[j].f, j - 1),
                   src |-> sheet.data[j].src]],
   totalProcessed |-> Len(sheet.data), skippedRecords |-> 0]

RECURSIVE transformAll(_, _)
transformAll(parsed, k) ==
  IF k > Len(parsed) THEN [records |-> <<>>, totalProcessed |-> 0, skippedRecords |-> 0]
  ELSE LET one == streamingTransformation(parsed[k])
           rest == transformAll(parsed, k + 1)
       IN [records |-> one.records \o rest.records,
           totalProcessed |-> one.totalProcessed + rest.totalProcessed,
           skippedRecords |-> one.skippedRecords + rest.skippedRecords]

dataLengths(parsed) == [k \in 1..Len(parsed) |-> Len(parsed[k].data)]

\* transformSheetsData: the TransformationResult; streaming tells that the sheets
\* were cached instead of transformed
transformSheetsData(parsed) ==
  LET totalRows == SumSeq(dataLengths(parsed))
  IN IF useStreaming(totalRows)
     THEN [records |-> <<>>, totalProcessed |-> totalRows, validRecords |-> totalRows,
           skippedRecords |-> 0, streaming |-> TRUE]
     ELSE LET all == transformAll(parsed, 1)
          IN [records |-> all.records, totalProcessed |-> all.totalProcessed,
              validRecords |-> Len(all.records),
              skippedRecords |-> all.skippedRecords, streaming |-> FALSE]

(***************************************************************************)
(* processing/data-transformer.ts, the bypass revision                     *)
(***************************************************************************)
BYPASS_LIMIT == 1000

\* record?.code || record?.Code || `row_${i}`: an empty string is falsy
bypassCode(sourceRecord, i) ==
  IF "code" \in DOMAIN sourceRecord /\ sourceRecord["code"] # <<>>
  THEN sourceRecord["code"]
  ELSE IF "Code" \in DOMAIN sourceRecord /\ sourceRecord["Code"] # <<>>
       THEN sourceRecord["Code"]
       ELSE <<"r", "o", "w", "_">> \o NumToStr(i)

\* the record bypassTransformation pushes for sheet.data[i]
bypassRecord(sourceRecord, i) ==
  [c \in Columns |->
     IF c = "code" THEN Slice0(bypassCode(sourceRecord, i), fieldCap(c))
     ELSE Slice0(IF c \in DOMAIN sourceRecord THEN sourceRecord[c] ELSE <<>>,
                 fieldCap(c))]

\* for (let i = 0; i < sheet.data.length && i < 1000; i++): data[k] is index k - 1
RECURSIVE bypassFrom(_, _)
bypassFrom(data, k) ==
  IF k > Len(data) \/ k > BYPASS_LIMIT THEN <<>>
  ELSE (IF Trim(bypassCode(data[k].f, k - 1)) # <<>>
        THEN << [f |-> bypassRecord(data[k].f, k - 1), src |-> data[k].src] >>
        ELSE <<>>) \o bypassFrom(data, k + 1)

bypassTransformation(sheet) ==
  LET records == bypassFrom(sheet.data, 1)
  IN [records |-> records, totalProcessed |-> Len(sheet.data),
      skippedRecords |-> Len(sheet.data) - Len(records)]

RECURSIVE bypassAll(_, _)
bypassAll(parsed, k) ==
  IF k > Len(parsed) THEN [records |-> <<>>, totalProcessed |-> 0, skippedRecords |-> 0]
  ELSE LET one == bypassTransformation(parsed[k])
           rest == bypassAll(parsed, k + 1)
       IN [records |-> one.records \o rest.records,
           totalProcessed |-> one.totalProcessed + rest.totalProcessed,
           skippedRecords |-> one.skippedRecords + rest.skippedRecords]

\* deduplicateRecords: the first record of every key code.toLowerCase().trim()
dedupKey(r) == Trim(ToLowerCase(r.f["code"]))

RECURSIVE deduplicateFrom(_, _, _)
deduplicateFrom(records, k, seen) ==
  IF k > Len(records) THEN <<>>
  ELSE IF dedupKey(records[k]) \in seen
       THEN deduplicateFrom(records, k + 1, seen)
       ELSE <<records[k]>> \o deduplicateFrom(records, k + 1, seen \cup {dedupKey(records[k])})

deduplicateRecords(records) == deduplicateFrom(records, 1, {})

\* transformSheetsData of the bypass revision
bypassTransformSheetsData(parsed) ==
  LET all == bypassAll(parsed, 1)
      deduplicated == deduplicateRecords(all.records)
  IN [records |-> deduplicated, totalProcessed |-> all.totalProcessed,
      validRecords |-> Len(deduplicated),
      skippedRecords |-> all.skippedRecords + (Len(all.records) - Len(deduplicated)),
      streaming |-> FALSE]

(***************************************************************************)
(* validateTransformedRecords                                              *)
(***************************************************************************)
\* safeNormalize(value, 'requirement'), the normalization of requirement_level;
\* its only caller is safeTransformRecord, which no transformation calls
safeNormalize(value) ==
  IF value = <<>> THEN <<>>
  ELSE LET lowerValue == Trim(ToLowerCase(value))
       IN IF Includes(lowerValue, <<"r", "e", "q", "u", "i", "r", "e", "d">>)
             \/ Includes(lowerValue, <<"m", "a", "n", "d", "a", "t", "o", "r", "y">>)
          THEN <<"r", "e", "q", "u", "i", "r", "e", "d">>
          ELSE IF Includes(lowerValue, <<"o", "p", "t", "i", "o", "n", "a", "l">>)
               THEN <<"o", "p", "t", "i", "o", "n", "a", "l">>
               ELSE IF Includes(lowerValue,
                                <<"c", "o", "n", "d", "i", "t", "i", "o", "n", "a", "l">>)
                    THEN <<"c", "o", "n", "d", "i", "t", "i", "o", "n", "a", "l">>
                    ELSE value

REQUIREMENT_LEVELS ==
  { <<"R", "E", "Q", "U", "I", "R", "E", "D">>,
    <<"O", "P", "T", "I", "O", "N", "A", "L">>,
    <<"R", "E", "C", "O", "M", "M", "E", "N", "D", "E", "D">> }

\* validateRecord(record).length === 0
recordIsValid(f) ==
  /\ ~(f["code"] = <<>> \/ Trim(f["code"]) = <<>>)
  /\ Len(f["code"]) <= 255
  /\ Len(f["description"]) <= 2000
  /\ (f["requirement_level"] = <<>> \/ f["requirement_level"] \in REQUIREMENT_LEVELS)

RECURSIVE validateFrom(_, _)
validateFrom(records, k) ==
  IF k > Len(records) THEN [validRecords |-> <<>>, invalidRecords |-> 0, added |-> <<>>]
  ELSE LET rest == validateFrom(records, k + 1)
       IN IF recordIsValid(records[k].f)
          THEN [validRecords |-> <<records[k]>> \o rest.validRecords,
                invalidRecords |-> rest.invalidRecords, added |-> rest.added]
          ELSE [validRecords |-> rest.validRecords,
                invalidRecords |-> rest.invalidRecords + 1,
                added |-> << [source |-> "DataTransformer", kind |-> "record",
                              ref |-> records[k].src] >> \o rest.added]

validateTransformedRecords(records) == validateFrom(records, 1)

(***************************************************************************)
(* State                                                                   *)
(***************************************************************************)
VARIABLES
  workbook,          \* Spec: the sheets XLSX.read yields (rows of cells, row 1 = header)
  sheetRows,         \* SpecLoad: data.length of every parsed sheet
  cli,               \* CLIOptions: [dryRun]
  pc,                \* position of the run
  errors,            \* ErrorCollector.errors
  fetch,             \* [probe, direct]: outcome of validateSheetAccess / downloadXLSX
  parsedSheets,      \* result of parseXLSXBuffer
  revision,          \* which revision of DataTransformer transformed the sheets
  transformResult,   \* TransformationResult
  validationResult,  \* result of validateTransformedRecords
  cachedSheetData,   \* DataTransformer.cachedSheetData: [sheetName, rows] per sheet
  options,           \* MigrationOptions: [dryRun, batchSize, truncateTable]
  mig,               \* locals of migrateToTable(Streaming) / insertRecords(Streaming)
  issued,            \* length of every batch passed to insertBatch, in order
  db,                \* the target store
  db0,               \* the target store when the run started
  migrationResult,   \* MigrationResult returned by the loader
  tableResult,       \* the entry processTable returns
  faults,            \* failures injected so far
  sources,           \* the workbook behind the URL of every configured table
  configurations,    \* the tables processTables goes through, in order
  tableIndex,        \* position in configurations of the table being processed
  tableResults,      \* the entries processTables has collected
  stored,            \* the rule tables of the tables already processed
  summary,           \* MigrationSummary
  reported,          \* logFinalReport has run
  exitCode,          \* what CLI.run returns, -1 while it runs
  schema,            \* SpecMigrations: [effects, versions], what is committed
  pool,              \* SpecMigrations: the pg Pool of DatabaseConnection
  mgr,               \* SpecMigrations: locals of migrate() and applyMigration()
  migrateResults,    \* SpecMigrations: what every migrate() returned, in order
  status,            \* SpecMigrations: what getStatus() returned last
  integrity          \* SpecMigrations: what verifyIntegrity() returned last

vars == << workbook, sheetRows, cli, pc, errors, fetch, parsedSheets, revision,
           transformResult, validationResult, cachedSheetData, options, mig,
           issued, db, db0, migrationResult, tableResult, faults, sources,
           configurations, tableIndex, tableResults, stored, summary, reported,
           exitCode, schema, pool, mgr, migrateResults, status, integrity >>

\* what belongs to DatabaseMigrations and the pool of DatabaseConnection
schemaVars == << schema, pool, mgr, migrateResults, status, integrity >>

\* what belongs to CLI.run, executeMigration and processTables
runVars == << sources, configurations, tableIndex, tableResults, stored, summary,
              reported, exitCode >>

\* what no step of processTable and of the loader assigns
inputVars == << workbook, sheetRows, cli, db0, runVars, schemaVars >>
pipeVars == << fetch, parsedSheets, revision, transformResult, validationResult >>
loaderVars == << options, mig, issued, migrationResult >>

None == [kind |-> "none"]

Min(a, b) == IF a < b THEN a ELSE b

\* Math.ceil(n / b) for b >= 1
CeilDiv(n, b) == (n + b - 1) \div b

(***************************************************************************)
(* ErrorCollector (utils/error-handler.ts)                                 *)
(***************************************************************************)
\* an addError that forgets what was collected before
addErrorForgetting(list, source, kind, ref) ==
  << [source |-> source, kind |-> kind, ref |-> ref] >>

addError(list, source, kind, ref) ==
  Append(list, [source |-> source, kind |-> kind, ref |-> ref])

hasErrors(list) == Len(list) > 0

(***************************************************************************)
(* DatabaseMigration (database/migration.ts): the loader                   *)
(***************************************************************************)
DEFAULT_BATCH_SIZE == 1000
STREAMING_BATCH_SIZE == 500

\* options.batchSize || appConfig.migration.batchSize ; options.batchSize || 500
\* (an absent batchSize is modelled as 0, which is falsy as well)
batchSizeOf(opts, op) ==
  IF opts.batchSize # 0 THEN opts.batchSize
  ELSE IF op = "migrateToTableStreaming" THEN STREAMING_BATCH_SIZE
       ELSE DEFAULT_BATCH_SIZE

migStart(op, n) ==
  [op |-> op, at |-> "create", n |-> n, i |-> 0, batchNumber |-> 0,
   recordsInserted |-> 0, recordsSkipped |-> 0, errors |-> <<>>,
   sheet |-> 1, pos |-> 0]

migIdle == [migStart("none", 0) EXCEPT !.at = "idle"]

\* the test of migrateToTable(Streaming) without its "!options.dryRun"
truncateRequestedInDryRun(opts) == opts.truncateTable

\* options.truncateTable && !options.dryRun
truncateRequested(opts) == opts.truncateTable /\ ~opts.dryRun

\* the indexes generateCreateTableSQL creates, named by their column
RULE_TABLE_INDEXES == {"code", "type"}

\* CREATE TABLE and CREATE INDEX without IF NOT EXISTS: the statement fails on a
\* table that exists
createTableUnconditionally(store) ==
  IF store.exists
  THEN [ok |-> FALSE, store |-> store]
  ELSE [ok |-> TRUE,
        store |-> [store EXCEPT !.exists = TRUE, !.indexes = RULE_TABLE_INDEXES,
                                !.creates = @ + 1]]

\* the statement of generateCreateTableSQL run against the store: CREATE TABLE
\* IF NOT EXISTS leaves an existing table and its rows alone, CREATE INDEX IF
\* NOT EXISTS an existing index; creates counts the statements run
generateCreateTableSQL(store) ==
  [ok |-> TRUE,
   store |-> [store EXCEPT !.exists = TRUE,
                           !.indexes = @ \cup RULE_TABLE_INDEXES,
                           !.creates = @ + 1]]

\* createRuleTable: CREATE TABLE IF NOT EXISTS and the two indexes; a failure is
\* recorded and answered with false, which migrateToTable(Streaming) ignores
CreateRuleTable ==
  /\ mig.at = "create"
  /\ \E ok \in BOOLEAN :
       /\ ok \/ faults < MaxFaults
       /\ ok => db.database
       /\ LET created == generateCreateTableSQL(db)
          IN IF ok /\ created.ok
             THEN /\ db' = created.store
                  /\ UNCHANGED << errors, faults >>
             ELSE /\ errors' = addError(errors, "DatabaseMigration", "create_table", 0)
                  /\ faults' = IF ok THEN faults ELSE faults + 1
                  /\ UNCHANGED db
  /\ mig' = [mig EXCEPT !.at = IF truncateRequested(options)
                                THEN "truncate" ELSE "insert"]
  /\ UNCHANGED << inputVars, pipeVars, pc, cachedSheetData, options, issued,
                  migrationResult, tableResult >>

\* truncateTable, and the catch block of migrateToTable / migrateToTableStreaming
\* when it throws
TruncateTable ==
  /\ mig.at = "truncate"
  /\ \E ok \in BOOLEAN :
       /\ ok => db.exists
       /\ ok \/ ~db.exists \/ faults < MaxFaults
       /\ IF ok
          THEN /\ db' = [db EXCEPT !.rows = 0, !.truncates = @ + 1]
               /\ mig' = [mig EXCEPT !.at = "insert"]
               /\ UNCHANGED << errors, faults, migrationResult, cachedSheetData >>
          ELSE /\ errors' = addError(errors, "DatabaseMigration", "migration_failed", 0)
               /\ faults' = IF db.exists THEN faults + 1 ELSE faults
               /\ mig' = [mig EXCEPT !.at = "done"]
               /\ migrationResult' =
                    [recordsInserted |-> 0,
                     recordsSkipped |-> IF mig.op = "migrateToTable" THEN mig.n ELSE 0,
                     errors |-> << [kind |-> "thrown", ref |-> 0] >>]
               /\ cachedSheetData' = IF mig.op = "migrateToTableStreaming"
                                     THEN <<>> ELSE cachedSheetData
               /\ UNCHANGED db
  /\ UNCHANGED << inputVars, pipeVars, pc, options, issued, tableResult >>

\* insertBatch: one multi-row INSERT; it catches the failure of the statement
\* and answers {inserted: 0, skipped: batch.length, errors: [message]}
insertBatchUnsettled(size, ok) == [inserted |-> 0, skipped |-> 0, errors |-> <<>>]

insertBatch(size, ok) ==
  IF ok THEN [inserted |-> size, skipped |-> 0, errors |-> <<>>]
  ELSE [inserted |-> 0, skipped |-> size,
        errors |-> << [kind |-> "insert_failed", ref |-> size] >>]

\* one iteration of the loop of insertRecords
InsertBatch ==
  /\ mig.op = "migrateToTable" /\ mig.at = "insert"
  /\ ~options.dryRun
  /\ mig.i < mig.n
  /\ LET batchSize == batchSizeOf(options, mig.op)
         size == Min(batchSize, mig.n - mig.i)
     IN \E ok \in BOOLEAN :
          /\ ok => db.exists
          /\ ok \/ ~db.exists \/ faults < MaxFaults
          /\ LET batchResult == insertBatch(size, ok)
             IN /\ mig' = [mig EXCEPT
                             !.i = @ + batchSize,
                             !.batchNumber = (mig.i \div batchSize) + 1,
                             !.recordsInserted = @ + batchResult.inserted,
                             !.recordsSkipped = @ + batchResult.skipped,
                             !.errors = @ \o batchResult.errors]
                /\ db' = [db EXCEPT !.rows = @ + batchResult.inserted]
          /\ faults' = IF ~ok /\ db.exists THEN faults + 1 ELSE faults
          /\ issued' = Append(issued, size)
  /\ UNCHANGED << inputVars, pipeVars, pc, errors, cachedSheetData, options,
                  migrationResult, tableResult >>

\* the return of insertRecords (at once in a dry run) and of migrateToTable
InsertRecordsReturn ==
  /\ mig.op = "migrateToTable" /\ mig.at = "insert"
  /\ options.dryRun \/ mig.i >= mig.n
  /\ migrationResult' =
       IF options.dryRun
       THEN [recordsInserted |-> mig.n, recordsSkipped |-> 0, errors |-> <<>>]
       ELSE [recordsInserted |-> mig.recordsInserted,
             recordsSkipped |-> mig.recordsSkipped, errors |-> mig.errors]
  /\ mig' = [mig EXCEPT !.at = "done"]
  /\ UNCHANGED << inputVars, pipeVars, pc, errors, cachedSheetData, options,
                  issued, db, tableResult, faults >>

(***************************************************************************)
(* streamRecordsFromCache: the generator                                   *)
(***************************************************************************)
\* The next batch the generator yields from position (sheet, pos): pos records of
\* cache[sheet] are consumed.  A full batch is yielded as soon as it holds
\* batchSize records, the rest of a sheet when the sheet ends.
RECURSIVE nextBatch(_, _, _, _)
nextBatch(cache, batchSize, sheet, pos) ==
  IF sheet > Len(cache) THEN [done |-> TRUE, size |-> 0, sheet |-> sheet, pos |-> 0]
  ELSE IF cache[sheet].rows - pos >= batchSize
       THEN [done |-> FALSE, size |-> batchSize, sheet |-> sheet, pos |-> pos + batchSize]
       ELSE IF cache[sheet].rows - pos > 0
            THEN [done |-> FALSE, size |-> cache[sheet].rows - pos,
                  sheet |-> sheet + 1, pos |-> 0]
            ELSE nextBatch(cache, batchSize, sheet + 1, 0)

\* the number of records of all batches from (sheet, pos) on
RECURSIVE streamTotal(_, _, _, _)
streamTotal(cache, batchSize, sheet, pos) ==
  LET b == nextBatch(cache, batchSize, sheet, pos)
  IN IF b.done THEN 0 ELSE b.size + streamTotal(cache, batchSize, b.sheet, b.pos)

\* one iteration of the loop of insertRecordsStreaming: result.errors is dropped
StreamBatch ==
  /\ mig.op = "migrateToTableStreaming" /\ mig.at = "insert"
  /\ ~options.dryRun
  /\ LET batchSize == batchSizeOf(options, mig.op)
         b == nextBatch(cachedSheetData, batchSize, mig.sheet, mig.pos)
     IN /\ ~b.done
        /\ \E ok \in BOOLEAN :
             /\ ok => db.exists
             /\ ok \/ ~db.exists \/ faults < MaxFaults
             /\ LET result == insertBatch(b.size, ok)
                IN /\ mig' = [mig EXCEPT
                                !.sheet = b.sheet, !.pos = b.pos,
                                !.batchNumber = @ + 1,
                                !.recordsInserted = @ + result.inserted,
                                !.recordsSkipped = @ + result.skipped]
                   /\ db' = [db EXCEPT !.rows = @ + result.inserted]
             /\ faults' = IF ~ok /\ db.exists THEN faults + 1 ELSE faults
             /\ issued' = Append(issued, b.size)
  /\ UNCHANGED << inputVars, pipeVars, pc, errors, cachedSheetData, options,
                  migrationResult, tableResult >>

\* the return of insertRecordsStreaming (a dry run only counts the records of
\* the generator) and of migrateToTableStreaming, which clears the cache
StreamReturn ==
  /\ mig.op = "migrateToTableStreaming" /\ mig.at = "insert"
  /\ LET batchSize == batchSizeOf(options, mig.op)
     IN /\ options.dryRun
           \/ nextBatch(cachedSheetData, batchSize, mig.sheet, mig.pos).done
        /\ migrationResult' =
             IF options.dryRun
             THEN [recordsInserted |-> streamTotal(cachedSheetData, batchSize, 1, 0),
                   recordsSkipped |-> 0, errors |-> <<>>]
             ELSE [recordsInserted |-> mig.recordsInserted,
                   recordsSkipped |-> mig.recordsSkipped, errors |-> mig.errors]
  /\ cachedSheetData' = <<>>
  /\ mig' = [mig EXCEPT !.at = "done"]
  /\ UNCHANGED << inputVars, pipeVars, pc, errors, options, issued, db,
                  tableResult, faults >>

(***************************************************************************)
(* The target store                                                        *)
(***************************************************************************)
\* database / configTable / exists: the database, migration_config and the rule
\* table exist; configRows: rows of migration_config; rows: rows of the rule
\* table; creates, truncates, configWrites: statements executed by this run
dbFresh ==
  [database |-> FALSE, configTable |-> FALSE, configRows |-> 0, exists |-> FALSE,
   indexes |-> {}, rows |-> 0, creates |-> 0, truncates |-> 0, configWrites |-> 0]

TABLE_MAPPINGS == 5

dbReady(rows) ==
  [dbFresh EXCEPT !.database = TRUE, !.configTable = TRUE,
                  !.configRows = TABLE_MAPPINGS, !.exists = TRUE,
                  !.indexes = RULE_TABLE_INDEXES, !.rows = rows]

dbEmpty == [dbFresh EXCEPT !.database = TRUE]

\* a store to whose migration_configuration one more {table_name, source_url}
\* pair has been added
dbAdded == [dbReady(1) EXCEPT !.configRows = TABLE_MAPPINGS + 1]

(***************************************************************************)
(* SpecLoad: strategy selection and the two loaders, on record counts      *)
(***************************************************************************)
SheetSizes == {0, 1, 2, 3, 50000, 50001, LARGE_THRESHOLD, LARGE_THRESHOLD + 1, 150000}

BatchSizes == {0, 1, 2, 3, 50000, LARGE_THRESHOLD}

SheetRowsInputs ==
  { <<a>> : a \in SheetSizes } \cup { <<a, b>> : a \in SheetSizes, b \in SheetSizes }

RECURSIVE sumCeil(_, _)
sumCeil(rows, b) ==
  IF rows = <<>> THEN 0 ELSE CeilDiv(Head(rows), b) + sumCeil(Tail(rows), b)

\* the loader calls the run of a table can make stay within MaxBatches batches
WithinBatches(rows, opts) ==
  IF useStreaming(SumSeq(rows))
  THEN sumCeil(rows, batchSizeOf(opts, "migrateToTableStreaming")) <= MaxBatches
  ELSE CeilDiv(SumSeq(rows), batchSizeOf(opts, "migrateToTable")) <= MaxBatches

OptionInputs ==
  [dryRun : BOOLEAN, batchSize : BatchSizes, truncateTable : BOOLEAN]

InitCommon ==
  /\ errors = <<>>
  /\ fetch = [probe |-> "none", direct |-> "none"]
  /\ parsedSheets = <<>>
  /\ revision = "none"
  /\ transformResult = None
  /\ validationResult = None
  /\ cachedSheetData = <<>>
  /\ mig = migIdle
  /\ issued = <<>>
  /\ migrationResult = None
  /\ tableResult = None
  /\ faults = 0
  /\ db0 = db
  /\ configurations = <<>>
  /\ tableIndex = 0
  /\ tableResults = <<>>
  /\ stored = <<>>
  /\ summary = None
  /\ reported = FALSE
  /\ exitCode = -1
  /\ schema = [effects |-> {}, versions |-> {}]
  /\ pool = [out |-> 0, overReleased |-> FALSE]
  /\ mgr = None
  /\ migrateResults = <<>>
  /\ status = None
  /\ integrity = None

InitLoad ==
  /\ workbook = <<>>
  /\ sources = <<>>
  /\ sheetRows \in SheetRowsInputs
  /\ options \in { o \in OptionInputs : WithinBatches(sheetRows, o) }
  /\ cli = [dryRun |-> options.dryRun]
  /\ db \in {dbEmpty, dbReady(0), dbReady(1)}
  /\ pc = "transform"
  /\ InitCommon

\* transformSheetsData on the lengths of the parsed sheets: above the threshold
\* the sheets are cached and no record is returned.  Record lists are kept by
\* their length here, and every record is taken to pass validateRecord.
SelectStrategy ==
  /\ pc = "transform"
  /\ LET totalRows == SumSeq(sheetRows)
         streaming == useStreaming(totalRows)
     IN /\ cachedSheetData' =
             IF streaming
             THEN [s \in 1..Len(sheetRows) |-> [sheetName |-> s, rows |-> sheetRows[s]]]
             ELSE cachedSheetData
        /\ transformResult' =
             [records |-> IF streaming THEN 0 ELSE totalRows,
              totalProcessed |-> totalRows, validRecords |-> totalRows,
              skippedRecords |-> 0, streaming |-> streaming]
        /\ validationResult' =
             [validRecords |-> IF streaming THEN 0 ELSE totalRows,
              invalidRecords |-> 0, errors |-> <<>>]
  /\ revision' = "streaming"
  /\ pc' = "migrate"
  /\ UNCHANGED << inputVars, errors, fetch, parsedSheets, loaderVars, db,
                  tableResult, faults >>

\* a call of migrateToTable with the records the transformer returned
MigrateToTable ==
  /\ pc = "migrate" /\ mig.at = "idle"
  /\ mig' = migStart("migrateToTable", validationResult.validRecords)
  /\ UNCHANGED << inputVars, pipeVars, pc, errors, cachedSheetData, options,
                  issued, db, migrationResult, tableResult, faults >>

\* a call of migrateToTableStreaming with the transformer that cached the sheets
MigrateToTableStreaming ==
  /\ pc = "migrate" /\ mig.at = "idle"
  /\ transformResult.streaming
  /\ mig' = migStart("migrateToTableStreaming", SumSeq(sheetRows))
  /\ UNCHANGED << inputVars, pipeVars, pc, errors, cachedSheetData, options,
                  issued, db, migrationResult, tableResult, faults >>

\* the result entry of the table: processTable adds the invalid records to the
\* skipped ones
ProcessTableReturn ==
  /\ pc = "migrate" /\ mig.at = "done"
  /\ tableResult' =
       [recordsInserted |-> migrationResult.recordsInserted,
        recordsSkipped |-> migrationResult.recordsSkipped
                             + validationResult.invalidRecords,
        errors |-> validationResult.errors \o migrationResult.errors]
  /\ pc' = "done"
  /\ UNCHANGED << inputVars, pipeVars, errors, cachedSheetData, loaderVars, db,
                  faults >>

Loader ==
  \/ CreateRuleTable
  \/ TruncateTable
  \/ InsertBatch
  \/ InsertRecordsReturn
  \/ StreamBatch
  \/ StreamReturn

NextLoad ==
  \/ SelectStrategy
  \/ MigrateToTable
  \/ MigrateToTableStreaming
  \/ Loader
  \/ ProcessTableReturn

SpecLoad == InitLoad /\ [][NextLoad]_vars

(***************************************************************************)
(* Spec: one run of the migration over one table, on explicit rows         *)
(***************************************************************************)
HeaderRow ==
  [i \in 1..Len(RULE_TABLE_COLUMNS) |-> Str(headerVariations(RULE_TABLE_COLUMNS[i])[1])]

\* code "a", "A" and " a"; a blank row; a row without code; a row whose
\* requirement_level is none of the three levels
CandidateRows ==
  { << Str(<<"a">>) >>,
    << Str(<<"A">>) >>,
    << Str(<<" ", "a">>) >>,
    << Str(<<" ">>) >>,
    << Undefined, Str(<<"d">>) >>,
    << Str(<<"b">>), Undefined, Undefined, Str(<<"x">>) >> }

RECURSIVE RowLists(_)
RowLists(n) ==
  IF n = 0 THEN { <<>> }
  ELSE RowLists(n - 1)
         \cup { Append(l, r) : l \in { m \in RowLists(n - 1) : Len(m) = n - 1 },
                               r \in CandidateRows }

\* a workbook whose only data row has code "a" and a type one character longer
\* than the cap of type
LongTypeWorkbook ==
  << << HeaderRow,
        << Str(<<"a">>), Undefined, Undefined, Undefined, Undefined,
           Str([i \in 1..(fieldCap("type") + 1) |-> "t"]) >> >> >>

\* a workbook whose only data row has code "a" and requirement_level "Mandatory"
MandatoryWorkbook ==
  << << HeaderRow,
        << Str(<<"a">>), Undefined, Undefined,
           Str(<<"M", "a", "n", "d", "a", "t", "o", "r", "y">>) >> >> >>

Workbooks ==
  { << <<>> >> }
    \cup { << <<HeaderRow>> \o l >> : l \in RowLists(MaxRows) }
    \cup { << <<HeaderRow, a>>, <<HeaderRow, b>> >> : a \in CandidateRows,
                                                       b \in CandidateRows }
    \cup { << << <<Str(<<"C", "o", "d", "e">>)>>, <<Str(<<"a">>)>> >> >> }
    \cup { LongTypeWorkbook, MandatoryWorkbook }

\* what parseArguments and validateOptions make of the command line apart from
\* the table name: accepted, --help, rejected by validateOptions (a missing
\* environment variable, --verbose with --quiet), or an option parseArguments
\* throws on
ArgumentOutcomes == {"ok", "help", "invalid", "throws"}

\* a table added to migration_configuration after the five initial ones; its
\* name is taken to sort after theirs
NewTable == TABLE_MAPPINGS + 1

\* the workbook of table t when the others are empty workbooks
onlySource(t, w) == [u \in 1..NewTable |-> IF u = t THEN w ELSE << <<>> >>]

\* a run with --table for the first configured table
Init ==
  /\ \E w \in Workbooks : sources = onlySource(1, w)
  /\ workbook = <<>>
  /\ sheetRows = <<>>
  /\ cli \in [dryRun : BOOLEAN, args : ArgumentOutcomes, tableName : {1, NewTable},
               configOnly : {FALSE}]
  /\ db \in {dbFresh, dbReady(1), dbAdded}
  /\ cli.tableName = NewTable <=> db = dbAdded
  /\ options = None
  /\ pc = "cli"
  /\ InitCommon

\* the catch block of executeMigration
completeMigrationFailed(list) == addError(list, "MigrationService", "run_failed", 0)

\* the catch block of processTable
tableProcessingFailed(list) == addError(list, "MigrationService", "table_failed", 0)

failedTableResult ==
  [recordsInserted |-> 0, recordsSkipped |-> 0,
   errors |-> << [kind |-> "thrown", ref |-> 0] >>]

\* setupDatabase: createDatabase, createConfigurationTable and
\* initializeConfiguration, whatever options.dryRun is; done is the number of
\* statements that succeeded before one threw.  On a failure setupAndValidate
\* throws into the catch block of executeMigration.
SetupDatabase ==
  /\ pc = "setup"
  /\ \E done \in 0..3 :
       /\ done = 3 \/ faults < MaxFaults
       /\ db' = [db EXCEPT
                   !.database = @ \/ done >= 1,
                   !.configTable = @ \/ done >= 2,
                   !.configRows = IF done >= 3 /\ @ < TABLE_MAPPINGS
                                   THEN TABLE_MAPPINGS ELSE @,
                   !.configWrites = IF done >= 3 THEN @ + 1 ELSE @]
       /\ IF done = 3
          THEN /\ pc' = "validateSetup"
               /\ UNCHANGED << errors, faults >>
          ELSE /\ pc' = "aborted"
               /\ errors' = addError(errors, "DatabaseMigration", "setup", 0)
               /\ faults' = faults + 1
  /\ UNCHANGED << inputVars, pipeVars, cachedSheetData, loaderVars, tableResult >>

\* validateDatabaseSetup: healthCheck and tableExists('migration_configuration')
ValidateDatabaseSetup ==
  /\ pc = "validateSetup"
  /\ \E ok \in BOOLEAN :
       /\ ok => db.configTable
       /\ ok \/ faults < MaxFaults
       /\ IF ok
          THEN /\ pc' = "config"
               /\ UNCHANGED << errors, faults >>
          ELSE /\ pc' = "aborted"
               /\ errors' = addError(errors, "DatabaseMigration", "validate_setup", 0)
               /\ faults' = faults + 1
  /\ UNCHANGED << inputVars, pipeVars, cachedSheetData, loaderVars, db, tableResult >>

\* processTable step 1: validateSheetAccess answers false on any error of the
\* authenticated request, and processTable throws
ValidateSheetAccess ==
  /\ pc = "access"
  /\ \E ok \in BOOLEAN :
       /\ ok \/ faults < MaxFaults
       /\ fetch' = [fetch EXCEPT !.probe = IF ok THEN "ok" ELSE "failed"]
       /\ IF ok
          THEN /\ pc' = "download"
               /\ UNCHANGED << errors, tableResult, faults >>
          ELSE /\ pc' = "done"
               /\ errors' = tableProcessingFailed(errors)
               /\ tableResult' = failedTableResult
               /\ faults' = faults + 1
  /\ UNCHANGED << inputVars, parsedSheets, revision, transformResult,
                  validationResult, cachedSheetData, loaderVars, db >>

\* processTable step 2: downloadXLSX, the request without credentials
DownloadXLSX ==
  /\ pc = "download"
  /\ \E ok \in BOOLEAN :
       /\ ok \/ faults < MaxFaults
       /\ fetch' = [fetch EXCEPT !.direct = IF ok THEN "ok" ELSE "failed"]
       /\ IF ok
          THEN /\ pc' = "parse"
               /\ UNCHANGED << errors, tableResult, faults >>
          ELSE /\ pc' = "done"
               /\ errors' = tableProcessingFailed(errors)
               /\ tableResult' = failedTableResult
               /\ faults' = faults + 1
  /\ UNCHANGED << inputVars, parsedSheets, revision, transformResult,
                  validationResult, cachedSheetData, loaderVars, db >>

\* processTable step 3: parseXLSXBuffer; it records and rethrows what XLSX.read
\* throws
ParseXLSXBuffer ==
  /\ pc = "parse"
  /\ \E ok \in BOOLEAN :
       /\ ok \/ faults < MaxFaults
       /\ IF ok
          THEN LET parsed == parseSheets(workbook, 1)
               IN /\ parsedSheets' = parsed.sheets
                  /\ errors' = errors \o parsed.added
                  /\ pc' = "transform"
                  /\ UNCHANGED << tableResult, faults >>
          ELSE /\ errors' = tableProcessingFailed(
                              addError(errors, "XLSXParser", "parse", 0))
               /\ tableResult' = failedTableResult
               /\ pc' = "done"
               /\ faults' = faults + 1
               /\ UNCHANGED parsedSheets
  /\ UNCHANGED << inputVars, fetch, revision, transformResult, validationResult,
                  cachedSheetData, loaderVars, db >>

\* processTable step 4 with the streaming revision of the transformer
TransformSheetsData ==
  /\ pc = "transform"
  /\ revision \in {"none", "streaming"}
  /\ LET result == transformSheetsData(parsedSheets)
     IN /\ transformResult' = result
        /\ cachedSheetData' =
             IF result.streaming
             THEN [s \in 1..Len(parsedSheets) |->
                     [sheetName |-> parsedSheets[s].sheetName,
                      rows |-> Len(parsedSheets[s].data)]]
             ELSE cachedSheetData
  /\ revision' = "streaming"
  /\ pc' = "validate"
  /\ UNCHANGED << inputVars, errors, fetch, parsedSheets, validationResult,
                  loaderVars, db, tableResult, faults >>

\* processTable step 4 with the bypass revision of the transformer
BypassTransformSheetsData ==
  /\ pc = "transform"
  /\ revision \in {"none", "bypass"}
  /\ transformResult' = bypassTransformSheetsData(parsedSheets)
  /\ revision' = "bypass"
  /\ pc' = "validate"
  /\ UNCHANGED << inputVars, errors, fetch, parsedSheets, validationResult,
                  cachedSheetData, loaderVars, db, tableResult, faults >>

\* processTable step 5
ValidateTransformedRecords ==
  /\ pc = "validate"
  /\ LET result == validateTransformedRecords(transformResult.records)
     IN /\ validationResult' =
             [validRecords |-> result.validRecords,
              invalidRecords |-> result.invalidRecords,
              errors |-> [i \in 1..result.invalidRecords |->
                            [kind |-> "invalid_record", ref |-> i]]]
        /\ errors' = errors \o result.added
  /\ pc' = "migrate"
  /\ UNCHANGED << inputVars, fetch, parsedSheets, revision, transformResult,
                  cachedSheetData, loaderVars, db, tableResult, faults >>

\* processTable step 6: the call of migrateToTable with the valid records
ProcessTableMigrate ==
  /\ pc = "migrate" /\ mig.at = "idle"
  /\ options' = [dryRun |-> cli.dryRun, batchSize |-> DEFAULT_BATCH_SIZE,
                 truncateTable |-> FALSE]
  /\ mig' = migStart("migrateToTable", Len(validationResult.validRecords))
  /\ UNCHANGED << inputVars, pipeVars, pc, errors, cachedSheetData, issued, db,
                  migrationResult, tableResult, faults >>

\* the validTableNames of validateOptions, by their position in the order of
\* table_name
validTableNames == {1, 2, 3, 4, 5}

\* validateOptions(options).isValid; tableName 0 stands for no --table
validateOptions(c) ==
  /\ c.args = "ok"
  /\ c.tableName # 0 => c.tableName \in validTableNames

\* CLI.run up to the call of executeMigration: what parseArguments throws is
\* caught by the outer catch, which returns 1; --help returns 0; options that
\* validateOptions rejects are added to the collector and run returns 1; none
\* of the three is inside the try block whose finally calls logFinalReport
CliRun ==
  /\ pc = "cli"
  /\ IF cli.args \in {"throws", "help"}
     THEN /\ pc' = "exited"
          /\ exitCode' = IF cli.args = "help" THEN 0 ELSE 1
          /\ UNCHANGED errors
     ELSE IF ~validateOptions(cli)
          THEN /\ pc' = "exited"
               /\ exitCode' = 1
               /\ errors' = addError(errors, "CLI", "invalid_option", 0)
          ELSE /\ pc' = "setup"
               /\ UNCHANGED << exitCode, errors >>
  /\ UNCHANGED << workbook, sheetRows, cli, db0, schemaVars, sources, configurations,
                  tableIndex, tableResults, stored, summary, reported, pipeVars,
                  cachedSheetData, loaderVars, db, tableResult, faults >>

\* the rows of migration_configuration as the SELECT returns them, ordered by
\* table_name; a table is named by its position in that order
configurationRows(store) == [i \in 1..store.configRows |-> i]

selectTable(rows, tableName) ==
  IF tableName = 0 THEN rows ELSE SelectSeq(rows, LAMBDA t : t = tableName)

\* what a table is reset to when processTable starts on the next table
NextTableLocals ==
  /\ fetch' = [probe |-> "none", direct |-> "none"]
  /\ parsedSheets' = <<>>
  /\ transformResult' = None
  /\ validationResult' = None
  /\ options' = None
  /\ mig' = migIdle
  /\ issued' = <<>>
  /\ migrationResult' = None
  /\ tableResult' = None

\* getMigrationConfiguration: nothing with --config-only; otherwise the SELECT,
\* which may throw, and the filter on options.tableName, which throws when it
\* leaves nothing.  Then processTables starts on the first configuration, or
\* returns at once when there is none.
GetMigrationConfiguration ==
  /\ pc = "config"
  /\ \E ok \in BOOLEAN :
       /\ ok \/ (~cli.configOnly /\ faults < MaxFaults)
       /\ LET selected == IF cli.configOnly THEN <<>>
                          ELSE selectTable(configurationRows(db), cli.tableName)
              missing == ~cli.configOnly /\ cli.tableName # 0 /\ selected = <<>>
          IN IF ok /\ ~missing
             THEN /\ configurations' = selected
                  /\ IF selected = <<>>
                     THEN /\ pc' = "summary"
                          /\ UNCHANGED << tableIndex, workbook >>
                     ELSE /\ pc' = "access"
                          /\ tableIndex' = 1
                          /\ workbook' = sources[selected[1]]
                  /\ UNCHANGED faults
             ELSE /\ pc' = "aborted"
                  /\ faults' = IF ok THEN faults ELSE faults + 1
                  /\ UNCHANGED << configurations, tableIndex, workbook >>
  /\ UNCHANGED << sheetRows, cli, db0, schemaVars, sources, tableResults, stored, summary,
                  reported, exitCode, pipeVars, errors, cachedSheetData,
                  loaderVars, db, tableResult >>

\* a loop that leaves the last configuration out
moreConfigurationsButLast(i, configs) == i < Len(configs) - 1

\* the condition of the for loop of processTables, i counting from 1
moreConfigurations(i, configs) == i < Len(configs)

\* processTables: the result of processTable is pushed and the loop goes on to
\* the next configuration, whatever the result says
ProcessTablesPush ==
  /\ pc = "done"
  /\ tableResults' = Append(tableResults,
                            [tableName |-> configurations[tableIndex]] @@ tableResult)
  /\ stored' = Append(stored, [tableName |-> configurations[tableIndex],
                               exists |-> db.exists, rows |-> db.rows])
  /\ IF moreConfigurations(tableIndex, configurations)
     THEN /\ tableIndex' = tableIndex + 1
          /\ workbook' = sources[configurations[tableIndex + 1]]
          /\ db' = [db EXCEPT !.exists = db0.exists, !.indexes = db0.indexes,
                              !.rows = db0.rows]
          /\ NextTableLocals
          /\ pc' = "access"
     ELSE /\ pc' = "summary"
          /\ UNCHANGED << tableIndex, workbook, db, fetch, parsedSheets,
                          transformResult, validationResult, options, mig, issued,
                          migrationResult, tableResult >>
  /\ UNCHANGED << sheetRows, cli, db0, schemaVars, sources, configurations, summary, reported,
                  exitCode, revision, errors, cachedSheetData, faults >>

RECURSIVE sumResults(_, _)
sumResults(results, field) ==
  IF results = <<>> THEN 0
  ELSE results[1][field] + sumResults(Tail(results), field)

\* a success flag that looks at the collector only
summarySuccessFromCollector(results, list) == ~hasErrors(list)

\* summary.success: true, unless a result has errors or the collector has any
summarySuccess(results, list) ==
  /\ \A i \in 1..Len(results) : ~(Len(results[i].errors) > 0)
  /\ ~hasErrors(list)

\* generateMigrationSummary
generateMigrationSummary(results, list) ==
  [success |-> summarySuccess(results, list),
   totalTables |-> Len(results),
   tablesProcessed |-> Len(results),
   totalRecords |-> sumResults(results, "recordsInserted")
                      + sumResults(results, "recordsSkipped"),
   recordsMigrated |-> sumResults(results, "recordsInserted"),
   recordsSkipped |-> sumResults(results, "recordsSkipped"),
   totalErrors |-> Len(list),
   tableResults |-> results]

GenerateMigrationSummary ==
  /\ pc = "summary"
  /\ summary' = generateMigrationSummary(tableResults, errors)
  /\ pc' = "report"
  /\ UNCHANGED << workbook, sheetRows, cli, db0, schemaVars, sources, configurations,
                  tableIndex, tableResults, stored, reported, exitCode, pipeVars,
                  errors, cachedSheetData, loaderVars, db, tableResult, faults >>

\* a summary of the catch block that claims success
failureSummarySucceeded(list) ==
  [success |-> TRUE, totalTables |-> 0, tablesProcessed |-> 0,
   totalRecords |-> 0, recordsMigrated |-> 0, recordsSkipped |-> 0,
   totalErrors |-> Len(list), tableResults |-> <<>>]

\* the summary the catch block of executeMigration returns
failureSummary(list) ==
  [success |-> FALSE, totalTables |-> 0, tablesProcessed |-> 0,
   totalRecords |-> 0, recordsMigrated |-> 0, recordsSkipped |-> 0,
   totalErrors |-> Len(list), tableResults |-> <<>>]

\* the catch block of executeMigration
ExecuteMigrationCatch ==
  /\ pc = "aborted"
  /\ errors' = completeMigrationFailed(errors)
  /\ summary' = failureSummary(errors')
  /\ pc' = "report"
  /\ UNCHANGED << workbook, sheetRows, cli, db0, schemaVars, sources, configurations,
                  tableIndex, tableResults, stored, reported, exitCode, pipeVars,
                  cachedSheetData, loaderVars, db, tableResult, faults >>

\* CLI.run after executeMigration returned: the exit code, and logFinalReport in
\* the finally block
CliReturn ==
  /\ pc = "report"
  /\ exitCode' = IF summary.success /\ ~hasErrors(errors) THEN 0 ELSE 1
  /\ reported' = TRUE
  /\ pc' = "exited"
  /\ UNCHANGED << workbook, sheetRows, cli, db0, schemaVars, sources, configurations,
                  tableIndex, tableResults, stored, summary, pipeVars, errors,
                  cachedSheetData, loaderVars, db, tableResult, faults >>

Next ==
  \/ CliRun
  \/ SetupDatabase
  \/ ValidateDatabaseSetup
  \/ ValidateSheetAccess
  \/ DownloadXLSX
  \/ ParseXLSXBuffer
  \/ TransformSheetsData
  \/ BypassTransformSheetsData
  \/ ValidateTransformedRecords
  \/ ProcessTableMigrate
  \/ CreateRuleTable
  \/ InsertBatch
  \/ InsertRecordsReturn
  \/ ProcessTableReturn
  \/ GetMigrationConfiguration
  \/ ProcessTablesPush
  \/ GenerateMigrationSummary
  \/ ExecuteMigrationCatch
  \/ CliReturn

Spec == Init /\ [][Next]_vars

\* ---------------------------------------------------------------------------
\* SpecRun: runs over the configured tables
\* ---------------------------------------------------------------------------

\* a workbook of one sheet with the header and one row
oneRowWorkbook(row) == << << HeaderRow, row >> >>

\* every table has a row that passes, but the second, whose row validateRecord
\* rejects
RunSources ==
  LET good == [t \in 1..TABLE_MAPPINGS |-> oneRowWorkbook(<< Str(<<"a">>) >>)]
  IN { [good EXCEPT ![2] = oneRowWorkbook(
          << Str(<<"b">>), Undefined, Undefined, Str(<<"x">>) >>)] }

\* all tables, or --table with one of the configured names, on a store that
\* was never set up
InitRun ==
  /\ sources \in RunSources
  /\ workbook = <<>>
  /\ sheetRows = <<>>
  /\ cli \in [dryRun : BOOLEAN, args : ArgumentOutcomes, tableName : {0, 1},
               configOnly : BOOLEAN]
  /\ db = dbFresh
  /\ options = None
  /\ pc = "cli"
  /\ InitCommon

SpecRun == InitRun /\ [][Next]_vars

(***************************************************************************)
(* DatabaseMigrations and the pool of DatabaseConnection                   *)
(* A transaction is taken to be atomic: what a client did between BEGIN    *)
(* and a COMMIT that did not succeed is never committed, whether the       *)
(* ROLLBACK that follows succeeds or not.                                  *)
(***************************************************************************)
\* migrate() calls in one behaviour
MaxCalls == 2

\* the highest version of getMigrations(); versions are 1..LAST_VERSION
LAST_VERSION == 9

\* the migrations that create a rule table (generateCreateTableSQL)
RULE_TABLE_VERSIONS == {4, 5, 6, 7, 8}

\* the tables verifyIntegrity expects, by the version that creates them
expectedTables == {1, 2} \cup RULE_TABLE_VERSIONS

\* the constraints CREATE TABLE of generateCreateTableSQL puts on a rule table
ruleTableConstraints == {[type |-> "PRIMARY KEY", column |-> "id"]}

\* pool.connect()
connect(p) == [p EXCEPT !.out = @ + 1]

\* client.release(); releasing a client that is not checked out is an error
release(p) ==
  IF p.out = 0 THEN [p EXCEPT !.overReleased = TRUE] ELSE [p EXCEPT !.out = @ - 1]

releaseUnlessThrown(p, threw) == IF threw THEN p ELSE release(p)

\* the finally block of DatabaseConnection.query and of applyMigration
finallyRelease(p, threw) == release(p)

\* DatabaseConnection.query, as the pool sees it
queryPool(p, threw) == finallyRelease(connect(p), threw)

\* MAX(version) of migration_schema_versions, || 0
maxVersion(versions) ==
  IF versions = {} THEN 0 ELSE CHOOSE v \in versions : \A w \in versions : w <= v

\* getCurrentVersion: 0 when the query throws (the table does not exist)
getCurrentVersion(s, threw) ==
  IF threw \/ 1 \notin s.effects THEN 0 ELSE maxVersion(s.versions)

\* isMigrationApplied: false when the query throws
isMigrationApplied(s, version, threw) ==
  ~threw /\ 1 \in s.effects /\ version \in s.versions

\* COMMIT of the statements of applyMigration
commit(s, effects, versions) ==
  [effects |-> s.effects \cup effects, versions |-> s.versions \cup versions]

rollbackRecordOnly(s, effects, versions) == [s EXCEPT !.effects = @ \cup effects]

\* the transaction of applyMigration ended without a COMMIT
rollback(s, effects, versions) == s

\* the locals of migrate() when the loop starts
migrateStart(currentVersion) ==
  [currentVersion |-> currentVersion, version |-> 1, applied |-> 0, errors |-> 0,
   pendingEffects |-> {}, pendingVersions |-> {}, threw |-> FALSE,
   failedAt |-> "none", rollbackFailed |-> FALSE, reapplied |-> {}]

\* migrate(), up to the loop: getCurrentVersion; what getStatus and
\* verifyIntegrity answered before this call is out of date
MigrateStart ==
  /\ pc = "m_idle"
  /\ Len(migrateResults) < MaxCalls
  /\ \E threw \in BOOLEAN :
       /\ threw => faults < MaxFaults
       /\ faults' = IF threw THEN faults + 1 ELSE faults
       /\ mgr' = migrateStart(getCurrentVersion(schema, threw))
       /\ pool' = queryPool(pool, threw)
  /\ status' = None
  /\ integrity' = None
  /\ pc' = "m_loop"
  /\ UNCHANGED << workbook, sheetRows, cli, db0, runVars, pipeVars, errors,
                  cachedSheetData, loaderVars, db, tableResult, schema,
                  migrateResults >>

\* the head of the loop of migrate(): a migration at or below currentVersion
\* that isMigrationApplied finds is skipped, every other one is applied
MigrationCheck ==
  /\ pc = "m_loop"
  /\ mgr.version <= LAST_VERSION /\ mgr.errors = 0
  /\ IF mgr.version <= mgr.currentVersion
     THEN \E threw \in BOOLEAN :
            /\ threw => faults < MaxFaults
            /\ faults' = IF threw THEN faults + 1 ELSE faults
            /\ pool' = queryPool(pool, threw)
            /\ IF isMigrationApplied(schema, mgr.version, threw)
               THEN /\ mgr' = [mgr EXCEPT !.version = @ + 1]
                    /\ pc' = "m_loop"
               ELSE /\ mgr' = mgr
                    /\ pc' = "m_connect"
     ELSE /\ pc' = "m_connect"
          /\ UNCHANGED << faults, pool, mgr >>
  /\ UNCHANGED << workbook, sheetRows, cli, db0, runVars, pipeVars, errors,
                  cachedSheetData, loaderVars, db, tableResult, schema,
                  migrateResults, status, integrity >>

\* applyMigration: getClient; when it throws, no client was acquired and the
\* catch of migrate() counts the error and leaves the loop
GetClient ==
  /\ pc = "m_connect"
  /\ \E threw \in BOOLEAN :
       /\ threw => faults < MaxFaults
       /\ faults' = IF threw THEN faults + 1 ELSE faults
       /\ IF threw
          THEN /\ mgr' = [mgr EXCEPT !.errors = @ + 1, !.failedAt = "connect"]
               /\ pc' = "m_loop"
               /\ UNCHANGED pool
          ELSE /\ mgr' = [mgr EXCEPT !.reapplied =
                            IF mgr.version \in schema.effects
                            THEN @ \cup {mgr.version} ELSE @]
               /\ pool' = connect(pool)
               /\ pc' = "m_begin"
  /\ UNCHANGED << workbook, sheetRows, cli, db0, runVars, pipeVars, errors,
                  cachedSheetData, loaderVars, db, tableResult, schema,
                  migrateResults, status, integrity >>

\* applyMigration: client.query('BEGIN')
Begin ==
  /\ pc = "m_begin"
  /\ \E threw \in BOOLEAN :
       /\ threw => faults < MaxFaults
       /\ faults' = IF threw THEN faults + 1 ELSE faults
       /\ mgr' = [mgr EXCEPT !.failedAt = IF threw THEN "begin" ELSE @]
       /\ pc' = IF threw THEN "m_rollback" ELSE "m_sql"
  /\ UNCHANGED << workbook, sheetRows, cli, db0, runVars, pipeVars, errors,
                  cachedSheetData, loaderVars, db, tableResult, schema, pool,
                  migrateResults, status, integrity >>

\* applyMigration: client.query(migration.sql); the INSERT into
\* migration_schema_versions follows for versions above 1 only
MigrationSql ==
  /\ pc = "m_sql"
  /\ \E threw \in BOOLEAN :
       /\ threw => faults < MaxFaults
       /\ faults' = IF threw THEN faults + 1 ELSE faults
       /\ IF threw
          THEN /\ mgr' = [mgr EXCEPT !.failedAt = "sql"]
               /\ pc' = "m_rollback"
          ELSE /\ mgr' = [mgr EXCEPT !.pendingEffects = {mgr.version}]
               /\ pc' = IF mgr.version > 1 THEN "m_record" ELSE "m_commit"
  /\ UNCHANGED << workbook, sheetRows, cli, db0, runVars, pipeVars, errors,
                  cachedSheetData, loaderVars, db, tableResult, schema, pool,
                  migrateResults, status, integrity >>

\* applyMigration: INSERT INTO migration_schema_versions ... ON CONFLICT DO NOTHING
RecordVersion ==
  /\ pc = "m_record"
  /\ \E threw \in BOOLEAN :
       /\ threw => faults < MaxFaults
       /\ faults' = IF threw THEN faults + 1 ELSE faults
       /\ IF threw
          THEN /\ mgr' = [mgr EXCEPT !.failedAt = "record"]
               /\ pc' = "m_rollback"
          ELSE /\ mgr' = [mgr EXCEPT !.pendingVersions = {mgr.version}]
               /\ pc' = "m_commit"
  /\ UNCHANGED << workbook, sheetRows, cli, db0, runVars, pipeVars, errors,
                  cachedSheetData, loaderVars, db, tableResult, schema, pool,
                  migrateResults, status, integrity >>

\* applyMigration: client.query('COMMIT')
Commit ==
  /\ pc = "m_commit"
  /\ \E threw \in BOOLEAN :
       /\ threw => faults < MaxFaults
       /\ faults' = IF threw THEN faults + 1 ELSE faults
       /\ IF threw
          THEN /\ mgr' = [mgr EXCEPT !.failedAt = "commit"]
               /\ pc' = "m_rollback"
               /\ UNCHANGED schema
          ELSE /\ schema' = commit(schema, mgr.pendingEffects, mgr.pendingVersions)
               /\ mgr' = [mgr EXCEPT !.pendingEffects = {}, !.pendingVersions = {}]
               /\ pc' = "m_release"
  /\ UNCHANGED << workbook, sheetRows, cli, db0, runVars, pipeVars, errors,
                  cachedSheetData, loaderVars, db, tableResult, pool,
                  migrateResults, status, integrity >>

\* applyMigration: the catch block, client.query('ROLLBACK') and the rethrow;
\* when ROLLBACK throws, its error is the one that leaves the block
Rollback ==
  /\ pc = "m_rollback"
  /\ \E threw \in BOOLEAN :
       /\ threw => faults < MaxFaults
       /\ faults' = IF threw THEN faults + 1 ELSE faults
       /\ mgr' = [mgr EXCEPT !.pendingEffects = {}, !.pendingVersions = {},
                             !.threw = TRUE, !.rollbackFailed = threw]
  /\ schema' = rollback(schema, mgr.pendingEffects, mgr.pendingVersions)
  /\ pc' = "m_release"
  /\ UNCHANGED << workbook, sheetRows, cli, db0, runVars, pipeVars, errors,
                  cachedSheetData, loaderVars, db, tableResult, pool,
                  migrateResults, status, integrity >>

\* applyMigration: the finally block, and what migrate() does with the outcome:
\* applied++ and the next migration, or errors.push and break
Release ==
  /\ pc = "m_release"
  /\ pool' = finallyRelease(pool, mgr.threw)
  /\ mgr' = IF mgr.threw
            THEN [mgr EXCEPT !.errors = @ + 1, !.threw = FALSE]
            ELSE [mgr EXCEPT !.applied = @ + 1, !.version = @ + 1]
  /\ pc' = "m_loop"
  /\ UNCHANGED << workbook, sheetRows, cli, db0, runVars, pipeVars, errors,
                  cachedSheetData, loaderVars, db, tableResult, schema, faults,
                  migrateResults, status, integrity >>

\* migrate() after the loop: getCurrentVersion for the log, and the result
MigrateReturn ==
  /\ pc = "m_loop"
  /\ mgr.version > LAST_VERSION \/ mgr.errors > 0
  /\ \E threw \in BOOLEAN :
       /\ threw => faults < MaxFaults
       /\ faults' = IF threw THEN faults + 1 ELSE faults
       /\ pool' = queryPool(pool, threw)
  /\ migrateResults' = Append(migrateResults,
                              [applied |-> mgr.applied, total |-> LAST_VERSION,
                               errors |-> mgr.errors, reapplied |-> mgr.reapplied])
  /\ mgr' = None
  /\ pc' = "m_idle"
  /\ UNCHANGED << workbook, sheetRows, cli, db0, runVars, pipeVars, errors,
                  cachedSheetData, loaderVars, db, tableResult, schema,
                  status, integrity >>

\* getStatus(): getCurrentVersion, then the rows of migration_schema_versions
\* (none when that query throws); pending is every migration whose id is not
\* among them
GetStatus ==
  /\ pc = "m_idle"
  /\ \E threwVersion \in BOOLEAN, threwRows \in BOOLEAN :
       LET n == (IF threwVersion THEN 1 ELSE 0) + (IF threwRows THEN 1 ELSE 0)
           appliedMigrations == IF threwRows \/ 1 \notin schema.effects
                                THEN {} ELSE schema.versions
       IN /\ faults + n <= MaxFaults
          /\ faults' = faults + n
          /\ pool' = queryPool(queryPool(pool, threwVersion), threwRows)
          /\ status' = [currentVersion |-> getCurrentVersion(schema, threwVersion),
                        availableVersion |-> LAST_VERSION,
                        appliedMigrations |-> appliedMigrations,
                        pendingMigrations |-> (1..LAST_VERSION) \ appliedMigrations,
                        after |-> Len(migrateResults), threw |-> n > 0]
  /\ UNCHANGED << workbook, sheetRows, cli, db0, runVars, pipeVars, errors,
                  cachedSheetData, loaderVars, db, tableResult, schema, mgr, pc,
                  migrateResults, integrity >>

\* the issues of the loop of verifyIntegrity over the expected tables
missingTables(s) ==
  { [kind |-> "missing_table", table |-> t] : t \in expectedTables \ s.effects }

\* the issue of verifyIntegrity for one rule table: SELECT code throws when the
\* table is missing (or the query fails), and the constraint query looks for a
\* UNIQUE constraint on code
ruleTableIssues(s, t, threw) ==
  IF threw \/ t \notin s.effects
  THEN { [kind |-> "missing_columns", table |-> t] }
  ELSE IF { c \in ruleTableConstraints : c.type = "UNIQUE" /\ c.column = "code" } = {}
       THEN { [kind |-> "missing_unique", table |-> t] }
       ELSE {}

\* the last check of verifyIntegrity: COUNT(*) of migration_configuration, which
\* throws into the outer catch when the table is missing
configurationIssues(s, threw) ==
  IF threw \/ 2 \notin s.effects
  THEN { [kind |-> "check_failed", table |-> 0] }
  ELSE IF (IF 3 \in s.effects THEN TABLE_MAPPINGS ELSE 0) < 5
       THEN { [kind |-> "insufficient_configuration", table |-> 0] }
       ELSE {}

\* verifyIntegrity(); failAt is the query that is made to fail: the list of
\* tables (1: no issue so far, the outer catch adds one), the count (2), or the
\* queries of the rule table of that version
verifyIntegrity(s, failAt) ==
  LET issues ==
        IF failAt = 1
        THEN { [kind |-> "check_failed", table |-> 0] }
        ELSE missingTables(s)
               \cup UNION { ruleTableIssues(s, t, failAt = t) : t \in RULE_TABLE_VERSIONS }
               \cup configurationIssues(s, failAt = 2)
  IN [valid |-> issues = {}, issues |-> issues]

VerifyIntegrity ==
  /\ pc = "m_idle"
  /\ \E failAt \in {0, 1, 2, 4} :
       /\ failAt # 0 => faults < MaxFaults
       /\ faults' = IF failAt # 0 THEN faults + 1 ELSE faults
       /\ integrity' = verifyIntegrity(schema, failAt)
                         @@ [after |-> Len(migrateResults), threw |-> failAt # 0]
  /\ pool' = queryPool(pool, FALSE)
  /\ UNCHANGED << workbook, sheetRows, cli, db0, runVars, pipeVars, errors,
                  cachedSheetData, loaderVars, db, tableResult, schema, mgr, pc,
                  migrateResults, status >>

NextMigrations ==
  \/ MigrateStart
  \/ MigrationCheck
  \/ GetClient
  \/ Begin
  \/ MigrationSql
  \/ RecordVersion
  \/ Commit
  \/ Rollback
  \/ Release
  \/ MigrateReturn
  \/ GetStatus
  \/ VerifyIntegrity

InitMigrations ==
  /\ workbook = <<>>
  /\ sheetRows = <<>>
  /\ sources = <<>>
  /\ options = None
  /\ cli = [dryRun |-> FALSE]
  /\ db = dbFresh
  /\ pc = "m_idle"
  /\ InitCommon

SpecMigrations == InitMigrations /\ [][NextMigrations]_vars

(***************************************************************************)
(* Properties                                                              *)
(***************************************************************************)
DataRowsOf(s) == IF Len(workbook[s]) = 0 THEN <<>> ELSE Tail(workbook[s])

\* <<sheet, rowNumber>> of every data row of the workbook
RowKeys ==
  UNION { { <<s, k + 1>> : k \in 1..Len(DataRowsOf(s)) } : s \in 1..Len(workbook) }

RowAt(key) == DataRowsOf(key[1])[key[2] - 1]

\* the code cell is the first cell of a row
BlankCode(row) ==
  Len(row) = 0 \/ Falsy(row[1]) \/ Trim(ToStr(row[1])) = <<>>

HandedFor(key) ==
  Cardinality({ i \in 1..Len(validationResult.validRecords) :
                  validationResult.validRecords[i].src = key })

ErrorsFor(key) ==
  Cardinality({ i \in 1..Len(errors) :
                  errors[i].kind \in {"row", "record"} /\ errors[i].ref = key })

BatchEntries == Cardinality({ i \in 1..Len(errors) : errors[i].kind = "batch_failed" })

Transformed == transformResult # None

Validated == validationResult # None

\* the loader went through all its batches
LoadCompleted ==
  /\ mig.at = "done"
  /\ ~options.dryRun
  /\ \A i \in 1..Len(migrationResult.errors) : migrationResult.errors[i].kind # "thrown"

\* C1 as stated: once the records of a table are validated, every data row that
\* is not blank has exactly one of a record handed to the loader and an error
\* entry of the collector that refers to it.
C1_Original ==
  Validated =>
    \A key \in RowKeys :
       ~rowIsEmpty(RowAt(key)) => HandedFor(key) + ErrorsFor(key) = 1

\* C2 as stated: the result of a table has recordsInserted + recordsSkipped equal
\* to the number of data rows of its source, in both strategies.
C2_Original ==
  pc = "done" =>
    tableResult.recordsInserted + tableResult.recordsSkipped = SumSeq(sheetRows)

\* C3 as stated: a failed batch leaves one entry in the collector; for the
\* materialized loader the entries are as many as the failures it returns.
C3_Original ==
  /\ mig.recordsSkipped > 0 => BatchEntries >= 1
  /\ mig.op = "migrateToTable" => BatchEntries = Len(mig.errors)

\* C4 as stated: a completed load of N records with batch size B issued
\* ceil(N/B) batches, all of size B but the last, which has N mod B (or B).
C4_Original ==
  LoadCompleted =>
    LET N == mig.n
        B == batchSizeOf(options, mig.op)
        last == Len(issued)
    IN /\ last = CeilDiv(N, B)
       /\ \A i \in 1..(last - 1) : issued[i] = B
       /\ last > 0 => issued[last] = (IF N % B = 0 THEN B ELSE N % B)

C6_Original ==
  (pc = "done" /\ fetch.probe = "failed") => fetch.direct # "none"

\* C7: in a dry run no batch is inserted, the table is not truncated and keeps
\* its rows, and the loader reports all R records inserted and none skipped.
C7_Theorem ==
  options.dryRun =>
    /\ issued = <<>>
    /\ db.truncates = 0
    /\ db.rows = db0.rows
    /\ mig.at = "done" =>
         /\ migrationResult.recordsInserted = mig.n
         /\ migrationResult.recordsSkipped = 0

C7_Witness ==
  /\ options.dryRun /\ options.truncateTable
  /\ mig.op = "migrateToTableStreaming" /\ mig.at = "done"
  /\ migrationResult.recordsInserted = 150000
  /\ db.rows = 1

\* C8 as stated: a run with dryRun leaves the target store as it found it.
C8_Original == cli.dryRun => db = db0

\* C9 as stated: the transform returns one record for every record the parser
\* produced, whatever their codes.
C9_Original ==
  Transformed => Len(transformResult.records) = SumSeq(dataLengths(parsedSheets))

\* C10 as stated: a row with a blank code and another filled cell has a record
\* in the transform output whose code is auto_row_<n> and which keeps the
\* description of the row.
C10_Original ==
  Transformed =>
    \A key \in RowKeys :
       (BlankCode(RowAt(key)) /\ ~rowIsEmpty(RowAt(key))) =>
         \E i \in 1..Len(transformResult.records) :
            /\ transformResult.records[i].src = key
            /\ Slice0(transformResult.records[i].f["code"], 9)
                 = <<"a", "u", "t", "o", "_", "r", "o", "w", "_">>
            /\ transformResult.records[i].f["description"] = Trim(ToStr(RowAt(key)[2]))

\* the positions of processTable
TableSteps == {"access", "download", "parse", "transform", "validate", "migrate", "done"}

\* C11: the tables are processed one at a time in configuration order, with
\* exactly one result per configured table in that order: the results collected
\* so far are those of the first tables of the configuration, and when
\* processTables has returned there is one for every configured table, whatever
\* failed on the way.
C11_Theorem ==
  /\ Len(tableResults) <= Len(configurations)
  /\ \A i \in 1..Len(tableResults) : tableResults[i].tableName = configurations[i]
  /\ pc \in TableSteps => Len(tableResults) = tableIndex - 1
  /\ pc \in {"summary", "report", "exited"} =>
        Len(tableResults) = Len(configurations)

\* the first table failed entirely, and the last one was loaded after it
C11_Witness ==
  /\ pc = "exited"
  /\ Len(tableResults) = TABLE_MAPPINGS
  /\ tableResults[1].errors # <<>>
  /\ tableResults[1].recordsInserted = 0
  /\ tableResults[TABLE_MAPPINGS].recordsInserted = 1

\* some Table Migration Result has an error
SomeTableFailed == \E i \in 1..Len(tableResults) : tableResults[i].errors # <<>>

\* C12: the success flag of the summary is true exactly when no table result has
\* an error and the aggregator is empty; and a run whose command line
\* parseArguments accepted exits non-zero exactly when the aggregator is
\* non-empty or some table failed.
C12_Theorem ==
  /\ summary # None => (summary.success <=> (~SomeTableFailed /\ errors = <<>>))
  /\ (pc = "exited" /\ cli.args # "throws") =>
        (exitCode # 0 <=> (errors # <<>> \/ SomeTableFailed))

\* a run that exits 1 because a table result has an error, with nothing in the
\* aggregator
C12_Witness ==
  /\ pc = "exited" /\ cli.args = "ok"
  /\ exitCode = 1
  /\ summary.success = FALSE
  /\ SomeTableFailed
  /\ errors = <<>>

\* C12 as stated, for every run: the success flag, and a non-zero exit code
\* exactly when the aggregator is non-empty or some table failed
C12_Original ==
  /\ summary # None => (summary.success <=> (~SomeTableFailed /\ errors = <<>>))
  /\ pc = "exited" => (exitCode # 0 <=> (errors # <<>> \/ SomeTableFailed))

\* C13: on every run, whatever its outcome, the final error report has been
\* emitted when the run returns its exit code.
C13_Original == pc = "exited" => reported

\* executeMigration went to its catch block
RunAborted ==
  \/ pc = "aborted"
  \/ \E i \in 1..Len(errors) : errors[i].kind = "run_failed"

\* setupDatabase or validateDatabaseSetup failed
SetupFailed ==
  \E i \in 1..Len(errors) : errors[i].kind \in {"setup", "validate_setup"}

\* setupAndValidate returned
SetupSucceeded ==
  /\ validateOptions(cli)
  /\ pc \notin {"cli", "setup", "validateSetup"}
  /\ ~SetupFailed

\* no table was fetched or loaded
NoTableTouched ==
  /\ tableIndex = 0 /\ tableResults = <<>> /\ stored = <<>>
  /\ fetch = [probe |-> "none", direct |-> "none"]
  /\ issued = <<>>
  /\ db.exists = db0.exists /\ db.rows = db0.rows

\* C14: a run is aborted only before its first table, by a failure of database
\* setup, of its validation or of reading the configuration: an aborted run
\* has fetched and loaded no table and its summary reports success = false;
\* once the configuration is read no failure aborts the run, and the summary
\* is computed over the results of all configured tables.
C14_Theorem ==
  /\ RunAborted =>
        /\ NoTableTouched
        /\ summary # None => (~summary.success /\ summary.tableResults = <<>>)
  /\ SetupFailed => (RunAborted /\ configurations = <<>>)
  /\ (summary # None /\ ~RunAborted) =>
        /\ summary.tableResults = tableResults
        /\ Len(tableResults) = Len(configurations)

\* setup and validation succeeded, reading the configuration failed, and the
\* run ended with the summary of the catch block
C14_Witness ==
  /\ pc = "exited"
  /\ RunAborted /\ SetupSucceeded
  /\ summary.success = FALSE
  /\ exitCode = 1

\* C14 as stated: a failed setup or validation aborts the run before any table,
\* and once setup has succeeded no later failure aborts the run
C14_Original ==
  /\ SetupFailed =>
        /\ RunAborted /\ NoTableTouched
        /\ summary # None => ~summary.success
  /\ SetupSucceeded => ~RunAborted

\* C15: the aggregator is append-only: over every step of a run the earlier
\* entry list is a prefix of the later one, so its count never decreases and no
\* entry is cleared, removed or rewritten.
C15_Theorem ==
  [][/\ Len(errors) <= Len(errors')
     /\ SubSeq(errors', 1, Len(errors)) = errors]_vars

\* a finished run whose aggregator holds entries of the transformer and of the
\* orchestrator, added at different steps
C15_Witness ==
  /\ pc = "exited"
  /\ Len(errors) >= 3
  /\ \E i, j \in 1..Len(errors) :
        i < j /\ errors[i].source = "DataTransformer"
              /\ errors[j].source = "MigrationService"

\* C16: whenever a stage reports a failure the aggregator holds an entry for it:
\* a loader result with errors comes with an entry of the loader, and at the
\* end of a run a table result with errors implies a non-empty aggregator.
C16_Original ==
  /\ (migrationResult # None /\ migrationResult.errors # <<>>) =>
        \E i \in 1..Len(errors) : errors[i].source = "DatabaseMigration"
  /\ (pc = "exited" /\ SomeTableFailed) => errors # <<>>

\* C17: createRuleTable is idempotent: invoked for a table that exists already,
\* with or without rows, and not hit by a failure of the connection, it
\* succeeds, leaves the table, its indexes and its rows as they were and adds
\* no error.
C17_Theorem ==
  [][(mig.at = "create" /\ mig'.at # "create" /\ db.exists /\ faults' = faults) =>
       /\ db'.exists /\ db'.indexes = db.indexes /\ db'.rows = db.rows
       /\ db'.creates = db.creates + 1
       /\ errors' = errors]_vars

\* createRuleTable has run on a table that existed with one row
C17_Witness ==
  /\ db0.exists /\ db0.rows = 1
  /\ mig.op # "none" /\ mig.at \notin {"idle", "create"}
  /\ db.creates = 1
  /\ db.exists /\ db.indexes = db0.indexes /\ db.rows = 1
  /\ errors = <<>>

\* the caps of the Rule Record fields
C18Caps ==
  ("code" :> 100) @@ ("description" :> 500) @@ ("label" :> 200)
    @@ ("requirement_level" :> 50) @@ ("roles" :> 200) @@ ("type" :> 50)
    @@ ("validations" :> 500) @@ ("variant" :> 100)
    @@ ("codigo-categoria-mirakl" :> 100) @@ ("nome-categoria-mirakl" :> 200)
    @@ ("parent_code-categoria-mirakl" :> 100)

WithinCaps(records) ==
  \A i \in 1..Len(records) : \A c \in Columns : Len(records[i].f[c]) <= C18Caps[c]

UnmappedColumns(k) ==
  IF Len(workbook[k]) = 0 THEN {}
  ELSE LET mapping == createColumnMapping(headerStrings(workbook[k][1]))
       IN { c \in Columns : mapping[c] = -1 }

\* C19: a canonical field that matches no header cell does not fail the sheet:
\* the records of the sheet have the empty string for the field, the
\* aggregator gets no error entry for it, and a run in which nothing else went
\* wrong is not reported as failed.
C19_Original ==
  /\ pc \in {"transform", "validate", "migrate", "done"} =>
        \A k \in 1..Len(parsedSheets) :
          \A i \in 1..Len(parsedSheets[k].data) :
            \A c \in UnmappedColumns(k) : parsedSheets[k].data[i].f[c] = <<>>
  /\ \A i \in 1..Len(errors) : errors[i].kind # "unmapped_column"
  /\ (pc = "exited" /\ summary # None /\ ~SomeTableFailed
        /\ \A i \in 1..Len(errors) : errors[i].kind = "unmapped_column") =>
        (summary.success /\ exitCode = 0)

\* the data rows of the workbook that are not empty rows
SourceRows == { key \in RowKeys : ~rowIsEmpty(RowAt(key)) }

\* C20: after a run that is not a dry run and reports no error for the table,
\* the table holds as many rows as its source has data rows, whatever it held
\* before the run, so that no source row is stored twice.
C20_Original ==
  (/\ pc \in {"done", "summary", "report", "exited"}
   /\ ~cli.dryRun
   /\ tableResult # None /\ tableResult.errors = <<>>) =>
     db.rows = Cardinality(SourceRows)

\* C21 as stated: a run asked for a table whose pair is in the configuration
\* store gets past option validation (a summary is computed), and unless the
\* run aborts it processes exactly that table.
C21_Original ==
  (pc = "exited" /\ cli.args = "ok" /\ cli.tableName # 0
     /\ cli.tableName <= db0.configRows) =>
    /\ summary # None
    /\ ~RunAborted =>
         /\ configurations = << cli.tableName >>
         /\ Len(tableResults) = 1
         /\ tableResults[1].tableName = cli.tableName

\* the first migrate() applied every migration and reported no error
FirstMigrateComplete ==
  /\ Len(migrateResults) >= 1
  /\ migrateResults[1].applied = LAST_VERSION
  /\ migrateResults[1].errors = 0

\* C22 as stated: after a migrate() that applied all migrations without error,
\* the next migrate() executes no migration again and applies 0 migrations, and
\* a getStatus() taken right after the first one lists no pending migration.
C22_Original ==
  /\ (FirstMigrateComplete /\ Len(migrateResults) >= 2) =>
        /\ migrateResults[2].reapplied = {}
        /\ migrateResults[2].applied = 0
  /\ (FirstMigrateComplete /\ status # None /\ status.after = 1 /\ ~status.threw) =>
        status.pendingMigrations = {}

\* C23 as stated: after a migrate() that applied all migrations without error
\* on an empty database, verifyIntegrity() answers valid with no issue.
C23_Original ==
  (FirstMigrateComplete /\ integrity # None /\ integrity.after = 1
     /\ ~integrity.threw) =>
    /\ integrity.valid
    /\ integrity.issues = {}

\* the statements of applyMigration that run with a checked-out client
ClientSteps == {"m_begin", "m_sql", "m_record", "m_commit", "m_rollback", "m_release"}

\* what is committed is the effects and the version records of the first k
\* migrations (version 1 has no record)
CommittedPrefix ==
  \E k \in 0..LAST_VERSION :
    /\ schema.effects = 1..k
    /\ schema.versions = 2..k

\* a step that changes what is committed is the successful COMMIT of the
\* migration being applied: it adds the effects of that migration together with
\* its version record, in a call of migrate() in which no migration has failed
C28Step ==
  /\ schema' # schema =>
       /\ pc = "m_commit" /\ pc' = "m_release"
       /\ ~mgr'.threw
       /\ mgr.errors = 0
       /\ schema'.effects = schema.effects \cup {mgr.version}
       /\ schema'.versions = schema.versions \cup ({mgr.version} \ {1})
  /\ (pc \in ClientSteps /\ pc' = "m_loop" /\ mgr'.errors > mgr.errors
        /\ mgr.version \notin mgr.reapplied) =>
       mgr.version \notin schema'.effects
  /\ CommittedPrefix'

\* C28: over any sequence of migrate() calls with failing statements, a
\* migration that fails leaves neither its SQL effects nor its version record,
\* nothing is committed in a call after a migration failed in it, and the
\* committed migrations always form a prefix of the list in version order.
C28_Theorem == [][C28Step]_vars

\* the third migration failed at its version record after its SQL had run, and
\* only the first two are committed
C28_Witness ==
  /\ pc = "m_loop"
  /\ mgr.errors = 1 /\ mgr.failedAt = "record" /\ mgr.version = 3
  /\ schema.effects = {1, 2} /\ schema.versions = {2}

\* C29: a client is checked out exactly while applyMigration is between
\* getClient and its finally block, is never released twice, and no client is
\* checked out once a query or a migration has completed, whichever statement
\* failed.
C29_Theorem ==
  /\ ~pool.overReleased
  /\ pool.out = IF pc \in ClientSteps THEN 1 ELSE 0

\* COMMIT failed, then ROLLBACK failed, and the client is back in the pool
C29_Witness ==
  /\ pc = "m_loop"
  /\ mgr.failedAt = "commit" /\ mgr.rollbackFailed
  /\ mgr.errors = 1
  /\ pool.out = 0

\* the source rows that precede the batch the loader is about to take: the
\* index i of insertRecords, or the rows of the cached sheets before the
\* position of the generator of insertRecordsStreaming
BatchOffset ==
  IF mig.op = "migrateToTableStreaming"
  THEN SumSeq([s \in 1..Min(mig.sheet - 1, Len(cachedSheetData)) |->
                 cachedSheetData[s].rows]) + mig.pos
  ELSE mig.i

\* the records of the batches whose statement has completed
Settled(m) == m.recordsInserted + m.recordsSkipped

\* a step that hands a batch to insertBatch: no earlier batch is unsettled, the
\* batch starts at the source row that follows the rows of all earlier batches,
\* and it is settled (inserted or skipped) when the step ends
C24Step ==
  (issued' # issued /\ issued' # <<>>) =>
    /\ Len(issued') = Len(issued) + 1
    /\ Settled(mig) = SumSeq(issued)
    /\ BatchOffset = SumSeq(issued)
    /\ Settled(mig') = SumSeq(issued')

\* C24: within one table a batch is handed to insertBatch only when the
\* statement of every earlier batch has completed (succeeded or failed), and
\* batches are taken in source-row order: the rows of batch k+1 follow the rows
\* of batch k.
C24_Theorem == [][C24Step]_vars

\* three batches were issued in order, one of them failed
C24_Witness ==
  /\ Len(issued) >= 3
  /\ mig.recordsInserted > 0 /\ mig.recordsSkipped > 0
  /\ Settled(mig) = SumSeq(issued)

\* C25 as stated: once the strategy is chosen, every sheet of the table is
\* under the strategy its own row count selects (Streaming exactly when that
\* sheet has more than LARGE_THRESHOLD rows).
C25_Original ==
  (transformResult # None /\ sheetRows # <<>>) =>
    \A s \in 1..Len(sheetRows) :
      transformResult.streaming <=> useStreaming(sheetRows[s])

\* the requirement_level cell of a source row, as text
LevelOf(row) == IF Len(row) >= 4 /\ ~Falsy(row[4]) THEN ToStr(row[4]) ELSE <<>>

\* C26 as stated: once the records of a table are validated under Direct
\* Strategy, every row that has a code and a requirement_level has its record
\* handed to the loader with the requirement_level normalized: the keyword's
\* level when it contains a keyword, the value itself otherwise.
C26_Original ==
  (Validated /\ workbook # <<>>) =>
    \A key \in RowKeys :
      (~BlankCode(RowAt(key)) /\ LevelOf(RowAt(key)) # <<>>) =>
        \E i \in 1..Len(validationResult.validRecords) :
          /\ validationResult.validRecords[i].src = key
          /\ validationResult.validRecords[i].f["requirement_level"]
               = safeNormalize(LevelOf(RowAt(key)))

\* the warnings parsing leaves for sheet k: the messages in the errors of the
\* parsed sheet and the entries processSheet adds to the collector
SheetWarnings(k) == parsedSheets[k].errors + Len(processSheet(workbook[k], k).added)

\* C27 as stated: a parsed sheet that has no data row (no row at all, or the
\* header row only) has no record and exactly one warning.
C27_Original ==
  (parsedSheets # <<>> /\ Len(parsedSheets) = Len(workbook)) =>
    \A k \in 1..Len(workbook) :
      Len(workbook[k]) <= 1 =>
        /\ parsedSheets[k].data = <<>>
        /\ SheetWarnings(k) = 1

\* C30 as stated: the cache of the transformer holds sheets only after a
\* transformSheetsData that selected Streaming and before the load of that
\* table has ended, and it is empty once migrateToTableStreaming has returned.
C30_Original ==
  /\ cachedSheetData # <<>> =>
       /\ transformResult # None /\ transformResult.streaming
       /\ mig.at # "done" /\ pc # "done"
  /\ (mig.op = "migrateToTableStreaming" /\ mig.at = "done") => cachedSheetData = <<>>

====
